---- MODULE Spec2Model ----
(***************************************************************************)
(* A model of the collector of eks-kube-cost-poc                           *)
(* (src/kube-cost-application/pod_resource_collector.py): the pricing      *)
(* cache, the pod pass, the node pass and the scrape loop; and of the       *)
(* pricing server (src/kube-cost-server/kube_resource_server.py): the      *)
(* handler of POST /api/pricing and get_pricing_data.                      *)
(*                                                                         *)
(* Numbers.  Python floats are modelled by exact fixed-point integers:     *)
(*   CPU      in thousandths of a millicore (1000 = 1 millicore),          *)
(*   memory   in 1/102400 megabyte (102400 = 1 megabyte),                 *)
(*   prices   in 1e-4 dollars per vCPU-hour (500 = 0.05),                  *)
(*   costs    in 1e-8 dollars (1250000 = 0.0125).                          *)
(* round(x, n) is round-half-to-even, as Python's round on an exact value. *)
(* A Python value is a record [t, v]: t = "num" carries the number v, the  *)
(* other tags are the string "Unknown", the string "-", an unbound local   *)
(* name and None.                                                          *)
(*                                                                         *)
(* Time.  The only use the code makes of a cache entry's timestamp is      *)
(* time.time() - timestamp (line 134), so an entry carries that            *)
(* difference, its age in seconds, which every passage of time increases.  *)
(* Ages are kept up to CACHE_EXPIRY_SECONDS: the code cannot tell older    *)
(* entries apart.                                                          *)
(***************************************************************************)
EXTENDS Integers, Sequences, FiniteSets, TLC

\* ------------------------------------------------------------------ values

Num(n) == [t |-> "num", v |-> n]
Unknown == [t |-> "Unknown", v |-> 0]
Dash == [t |-> "-", v |-> 0]
Unbound == [t |-> "unbound", v |-> 0]
None == [t |-> "None", v |-> 0]
IsNum(x) == x.t = "num"

Min(a, b) == IF a < b THEN a ELSE b
Abs(a) == IF a < 0 THEN -a ELSE a

RECURSIVE GCD(_, _)
GCD(a, b) == IF b = 0 THEN a ELSE GCD(b, a % b)

\* n / d rounded to the nearest integer, ties to even (d > 0; \div floors).
RoundDiv(n, d) ==
    LET q == n \div d
        r == n % d
    IN  IF 2 * r < d THEN q
        ELSE IF 2 * r > d THEN q + 1
        ELSE IF q % 2 = 0 THEN q ELSE q + 1

\* a * b / c rounded to the nearest integer, ties to even, for 0 < c and
\* 0 <= b.  The fraction is reduced before the product is formed, which keeps
\* the product of the quantities used here within TLC's integers.
MulDivRound(a, b, c) ==
    LET g1 == GCD(Abs(a), c)
        a1 == a \div g1
        c1 == c \div g1
        g2 == GCD(b, c1)
        b1 == b \div g2
        c2 == c1 \div g2
    IN  RoundDiv(a1 * b1, c2)

\* ------------------------------------------------------ quantity strings
\* A quantity string is its numeric part and its suffix; ok = FALSE is a
\* string whose numeric part int()/float() cannot parse.
Qty(n, u) == [num |-> n, unit |-> u, ok |-> TRUE]
BadQty(u) == [num |-> 0, unit |-> u, ok |-> FALSE]
Raise == [t |-> "raise", v |-> 0]

\* convert_to_millicores with nanocores divided by 1,000,000,000.
convert_to_millicores_per_billion(cpu_value) ==
    IF ~cpu_value.ok THEN Raise
    ELSE IF cpu_value.unit = "n" THEN Num(cpu_value.num \div (1000 * 1000))
    ELSE IF cpu_value.unit = "m" THEN Num(cpu_value.num * 1000)
    ELSE Num(cpu_value.num * 1000 * 1000)

\* convert_to_millicores, in thousandths of a millicore.  Nanocore strings
\* are taken from the multiples of 1000n, which this unit holds exactly.
convert_to_millicores(cpu_value) ==
    IF ~cpu_value.ok THEN Raise
    ELSE IF cpu_value.unit = "n" THEN Num(cpu_value.num \div 1000)
    ELSE IF cpu_value.unit = "m" THEN Num(cpu_value.num * 1000)
    ELSE Num(cpu_value.num * 1000 * 1000)

\* convert_to_megabytes, in units of 1/102400 megabyte.
convert_to_megabytes(memory_value) ==
    IF ~memory_value.ok THEN Raise
    ELSE IF memory_value.unit = "Ki" THEN Num(memory_value.num * 100)
    ELSE IF memory_value.unit = "Mi" THEN Num(memory_value.num * 102400)
    ELSE IF memory_value.unit = "Gi" THEN Num(memory_value.num * 1024 * 102400)
    ELSE Num(memory_value.num * 102400)

\* round(x, 2) of a CPU quantity: a hundredth of a millicore is 10 units.
Round2Cpu(x) == RoundDiv(x, 10) * 10

\* round(x, 2) of a memory quantity: a hundredth of a megabyte is 1024 units.
Round2Mem(x) == RoundDiv(x, 1024) * 1024

\* ------------------------------------------------------------- the program

\* Threads that may exist; entry[t] says what thread t runs, "none" for a
\* thread that does not exist.
NumThreads == 4
Threads == 1 .. NumThreads

CACHE_EXPIRY_SECONDS == 300
\* A permit for every thread.
PermitPerThread == NumThreads
\* line 11: threading.Semaphore(3)
SemaphoreCapacity == 3
SCRAPE_INTERVAL == 300

VARIABLES
    world,              \* what the cluster and the pricing service can answer
    entry,              \* entry[t]: the function thread t was started on
    pc,                 \* pc[t]: where thread t is
    cost_cache,         \* cost_cache[k]: the entry of key k
    cache_lock,         \* the thread holding cache_lock: {} when free
    metrics_lock,       \* the thread holding metrics_lock: {} when free
    semaphore,          \* free permits of the semaphore
    caller,             \* caller[t]: who called get_cost_per_vcpu_per_hour
    cache_key,          \* get_cost_per_vcpu_per_hour's cache_key
    response,           \* the pricing service's answer being handled
    ret,                \* get_cost_per_vcpu_per_hour's return value
    obs,                \* what the running lookup saw and did (history)
    items,              \* pods.items / nodes.items of the running pass
    idx,                \* position of the for loop in items
    loc,                \* the locals of the running pass
    out,                \* what the running pass did to each item (history)
    caught,             \* the running pass's except handler has run (history)
    phases,             \* the passes scrape_metrics has finished (history)
    POD_USAGE_COST,
    POD_WASTAGE_COST,
    NODE_USAGE_COST,
    NODE_WASTAGE_COST,
    NODE_ACTUAL_COST,
    server,             \* the pricing server: the request it handles, its reply
    unit                \* a call of a unit converter: its argument, its result

cfgvars == <<world, entry>>
\* The state of what runs apart from the collector's threads.
elsewhere == <<server, unit>>
lookvars == <<caller, cache_key, response, ret, obs>>
passvars == <<items, idx, loc, out, caught, phases>>
lockvars == <<metrics_lock, semaphore>>
gaugevars == <<POD_USAGE_COST, POD_WASTAGE_COST, NODE_USAGE_COST,
               NODE_WASTAGE_COST, NODE_ACTUAL_COST>>
collectorvars == <<cfgvars, pc, cost_cache, cache_lock, lookvars, passvars,
                   lockvars, gaugevars>>
vars == <<collectorvars, elsewhere>>

\* ------------------------------------------------------------ pricing cache

\* A dict with no key.
EmptyDict == [k \in {} |-> None]

\* cost_cache[cache_key] = (value, timestamp), as the value and its age.
Entry(value, age) == [value |-> value, age |-> age]

\* What a lookup found under its key (history): nothing, or an entry.
Absent == [present |-> FALSE, value |-> None, age |-> 0]
Seen(e) == [present |-> TRUE, value |-> e.value, age |-> e.age]

\* The expired entry left in place.
EvictNothing(cache, k) == cache

\* line 139: del cost_cache[cache_key]
Evict(cache, k) == [x \in DOMAIN cache \ {k} |-> cache[x]]

\* line 162: cost_cache[cache_key] = (cost_per_vcpu_per_hour, time.time())
Store(cache, k, value) ==
    [x \in DOMAIN cache \cup {k} |-> IF x = k THEN Entry(value, 0) ELSE cache[x]]

Key(region, instance_type, operating_system) ==
    <<region, instance_type, operating_system>>

NoKey == Key("", "", "")
KeyUnknown == Key("Unknown", "Unknown", "Unknown")
NoLocals == [cpu_request |-> Unbound]
NoObs == [seen |-> Absent, nreq |-> 0, fetched |-> None]

\* The comparison of line 134 turned around.
FreshFlipped(e) == e.age > CACHE_EXPIRY_SECONDS

\* line 134: time.time() - timestamp < CACHE_EXPIRY_SECONDS
Fresh(e) == e.age < CACHE_EXPIRY_SECONDS

\* What requests.post + raise_for_status + response.json() can produce:
\* a RequestException (timeout, connection error, non-2xx status, a body
\* that is not JSON) or a JSON object, with or without the field.
Responses ==
    {[kind |-> "RequestException", field |-> None]}
        \cup {[kind |-> "json", field |-> None]}
        \cup {[kind |-> "json", field |-> Num(p)] : p \in world.prices}

\* line 158: cost_data.get("cost_per_vcpu_per_hour", "Unknown")
CostField(resp) == IF resp.field = None THEN Unknown ELSE resp.field

\* A thread started on get_cost_per_vcpu_per_hour calls it, again and again.
CallLookup(t) ==
    /\ entry[t] = "get_cost_per_vcpu_per_hour"
    /\ pc[t] = "ready"
    /\ \E k \in world.keys :
         cache_key' = [cache_key EXCEPT ![t] = k]
    /\ caller' = [caller EXCEPT ![t] = "thread"]
    /\ obs' = [obs EXCEPT ![t] = NoObs]
    /\ pc' = [pc EXCEPT ![t] = "cost_lock"]
    /\ UNCHANGED <<cfgvars, elsewhere, cost_cache, cache_lock, response, ret, passvars,
                   lockvars, gaugevars>>

\* line 131: with cache_lock (acquire)
CacheLockAcquire(t) ==
    /\ pc[t] \in {"cost_lock", "cost_lock2"}
    /\ cache_lock = {}
    /\ cache_lock' = {t}
    /\ pc' = [pc EXCEPT ![t] = IF pc[t] = "cost_lock" THEN "cost_check"
                                ELSE "cost_store"]
    /\ UNCHANGED <<cfgvars, elsewhere, cost_cache, lookvars, passvars, lockvars,
                   gaugevars>>

\* lines 132-139, and the release of cache_lock that ends the with block.
CacheCheck(t) ==
    /\ pc[t] = "cost_check"
    /\ cache_lock = {t}
    /\ IF cache_key[t] \in DOMAIN cost_cache
       THEN LET e == cost_cache[cache_key[t]]
            IN  /\ obs' = [obs EXCEPT ![t].seen = Seen(e)]
                /\ IF Fresh(e)
                   THEN /\ ret' = [ret EXCEPT ![t] = e.value]
                        /\ pc' = [pc EXCEPT ![t] = "cost_ret"]
                        /\ UNCHANGED cost_cache
                   ELSE /\ cost_cache' = Evict(cost_cache, cache_key[t])
                        /\ pc' = [pc EXCEPT ![t] = "cost_fetch"]
                        /\ UNCHANGED ret
       ELSE /\ obs' = [obs EXCEPT ![t].seen = Absent]
            /\ pc' = [pc EXCEPT ![t] = "cost_fetch"]
            /\ UNCHANGED <<cost_cache, ret>>
    /\ cache_lock' = {}
    /\ UNCHANGED <<cfgvars, elsewhere, caller, cache_key, response, passvars, lockvars,
                   gaugevars>>

\* lines 142-158 and 166-168: the request and what comes back.
Fetch(t) ==
    /\ pc[t] = "cost_fetch"
    /\ \E resp \in Responses :
         /\ obs' = [obs EXCEPT ![t].nreq = @ + 1,
                               ![t].fetched = IF resp.kind = "json"
                                              THEN CostField(resp) ELSE None]
         /\ IF resp.kind = "RequestException"
            THEN /\ ret' = [ret EXCEPT ![t] = Unknown]
                 /\ pc' = [pc EXCEPT ![t] = "cost_ret"]
                 /\ UNCHANGED response
            ELSE /\ response' = [response EXCEPT ![t] = CostField(resp)]
                 /\ pc' = [pc EXCEPT ![t] = "cost_lock2"]
                 /\ UNCHANGED ret
    /\ UNCHANGED <<cfgvars, elsewhere, caller, cost_cache, cache_lock, cache_key,
                   passvars, lockvars, gaugevars>>

\* lines 161-164: the entry is written with time.time() (age 0) and the
\* value is returned.
CacheStore(t) ==
    /\ pc[t] = "cost_store"
    /\ cache_lock = {t}
    /\ cost_cache' = Store(cost_cache, cache_key[t], response[t])
    /\ cache_lock' = {}
    /\ ret' = [ret EXCEPT ![t] = response[t]]
    /\ response' = [response EXCEPT ![t] = None]
    /\ pc' = [pc EXCEPT ![t] = "cost_ret"]
    /\ UNCHANGED <<cfgvars, elsewhere, caller, cache_key, obs, passvars, lockvars,
                   gaugevars>>

\* The return to a thread that called the function itself.
LookupReturn(t) ==
    /\ pc[t] = "cost_ret"
    /\ caller[t] = "thread"
    /\ pc' = [pc EXCEPT ![t] = "ready"]
    /\ cache_key' = [cache_key EXCEPT ![t] = NoKey]
    /\ ret' = [ret EXCEPT ![t] = None]
    /\ obs' = [obs EXCEPT ![t] = NoObs]
    /\ caller' = [caller EXCEPT ![t] = "none"]
    /\ UNCHANGED <<cfgvars, elsewhere, cost_cache, cache_lock, response, passvars,
                   lockvars, gaugevars>>

\* d seconds pass: every entry is d seconds older.
Aged(cache, d) ==
    [k \in DOMAIN cache |->
        Entry(cache[k].value, Min(cache[k].age + d, CACHE_EXPIRY_SECONDS))]

Tick ==
    /\ \E d \in world.ticks : cost_cache' = Aged(cost_cache, d)
    /\ cost_cache' # cost_cache
    /\ UNCHANGED <<cfgvars, elsewhere, pc, cache_lock, lookvars, passvars, lockvars,
                   gaugevars>>

LookupStep(t) ==
    \/ CacheLockAcquire(t)
    \/ CacheCheck(t)
    \/ Fetch(t)
    \/ CacheStore(t)

\* ------------------------------------------------------- cluster objects

\* A label that is not set is "".  labels.get(name, "Unknown")
LabelGet(l) == IF l = "" THEN "Unknown" ELSE l

\* A quantity that the mapping does not hold.  d.get(name, "0")
NoQty == [num |-> 0, unit |-> "absent", ok |-> TRUE]
QtyGet(q) == IF q = NoQty THEN Qty(0, "") ELSE q

\* resources.requests of the first container: None, or the cpu and memory
\* strings it holds.
NoRequests == [set |-> FALSE, cpu |-> NoQty, memory |-> NoQty]
Requests(c, m) == [set |-> TRUE, cpu |-> c, memory |-> m]

\* A pod: owner is the name of its owning ReplicaSet as the segments that
\* "-" separates, <<>> for a pod with no ReplicaSet owner.
Pod(ns, name, node, requests, owner) ==
    [namespace |-> ns, name |-> name, node_name |-> node,
     requests |-> requests, owner |-> owner]

Node(name, region, instance_type, os, cpu, memory) ==
    [name |-> name, region |-> region, instance_type |-> instance_type,
     os |-> os, cpu |-> cpu, memory |-> memory]

\* lines 171-179: owner.name.rsplit("-", 1)[0], as segments
get_deployment_name(pod) ==
    IF pod.owner = <<>> THEN <<"Unknown">>
    ELSE IF Len(pod.owner) = 1 THEN pod.owner
    ELSE SubSeq(pod.owner, 1, Len(pod.owner) - 1)

\* line 112: what core_v1.read_node answers for node_name: the node of that
\* name, or an ApiException (always, when the cluster has no such node).
ReadNodeAnswers(node_name) ==
    LET named == {n \in world.nodes : n.name = node_name}
    IN  {[kind |-> "node", node |-> n] : n \in named}
            \cup {[kind |-> "ApiException", node |-> None] :
                    x \in IF named = {} THEN {TRUE} ELSE world.apiErrors}

get_node_metadata(ans) ==
    IF ans.kind = "ApiException" THEN KeyUnknown
    ELSE Key(LabelGet(ans.node.region), LabelGet(ans.node.instance_type),
             LabelGet(ans.node.os))

\* What the metrics API answers for one item: an ApiException, a listing
\* with no entry of that name, or a listing whose entry holds the usage.
MetricsAnswers(cpus) ==
    {[kind |-> "ApiException", cpu |-> NoQty, memory |-> NoQty] : x \in world.apiErrors}
        \cup {[kind |-> "no entry", cpu |-> NoQty, memory |-> NoQty]}
        \cup {[kind |-> "entry", cpu |-> c, memory |-> m] :
                c \in cpus, m \in world.memUsage}

\* All sequences of distinct members of S of length at most n.
RECURSIVE Listings(_, _)
Listings(S, n) ==
    IF n = 0 THEN {<<>>}
    ELSE LET shorter == Listings(S, n - 1)
         IN  shorter \cup {Append(l, x) : l \in shorter, x \in S}

Distinct(l) == \A i, j \in 1 .. Len(l) : i # j => l[i] # l[j]

\* ---------------------------------------------------------------- gauges

\* A set that drops every other series of the gauge.
GaugeSetAlone(gauge, labels, value) == [l \in {labels} |-> value]

\* GAUGE.labels(...).set(value)
GaugeSet(gauge, labels, value) ==
    [l \in DOMAIN gauge \cup {labels} |-> IF l = labels THEN value ELSE gauge[l]]

eks_cluster_name == "Unknown"
ignore_namespaces == {"kube-system"}

\* --------------------------------------------------------------- pod pass

\* The function's locals that the model keeps.  A name that was never
\* assigned is Unbound.
Locals0 ==
    [cpu_request |-> Unbound, memory_request |-> Unbound,
     cpu_usage |-> Unbound, memory_usage |-> Unbound, unused_cpu |-> Unbound,
     usage_cost |-> Unbound, wastage_cost |-> Unbound,
     hourly_cost |-> Unbound, metrics |-> "none"]

\* An exception that no handler catches: it leaves the function.
except_Nothing(phase) == "escaped"

\* Where an exception raised inside the try of a gathering function goes:
\* lines 260-261 and 337-338 catch it, print, and leave the with block.
except_Exception(phase) == IF phase = "pod" THEN "pod_exit" ELSE "node_exit"

\* No handler for the metrics API's exception.
except_NoApiException(exc) == FALSE

\* lines 230 and 305: except ApiException, around the metrics call of one
\* item; any other exception passes through it.
except_ApiException(exc) == exc = "ApiException"

\* lines 211-239 for one pod: the locals after them, raised = TRUE when one
\* of the lines raises.
PodRecordLocals(l, pod, m) ==
    LET cpu_request == IF pod.requests.set
                       THEN convert_to_millicores(QtyGet(pod.requests.cpu))
                       ELSE Num(0)
        memory_request == IF pod.requests.set
                          THEN convert_to_megabytes(QtyGet(pod.requests.memory))
                          ELSE Num(0)
        cpu_usage == IF m.kind = "entry"
                     THEN convert_to_millicores(QtyGet(m.cpu)) ELSE Num(0)
        memory_usage == IF m.kind = "entry"
                        THEN convert_to_megabytes(QtyGet(m.memory))
                        ELSE IF m.kind = "ApiException" THEN Num(0)
                        ELSE l.memory_usage
        raised == \/ cpu_request = Raise \/ memory_request = Raise
                  \/ cpu_usage = Raise \/ memory_usage = Raise
                  \/ memory_usage = Unbound
                  \/ m.kind = "ApiException" /\ ~except_ApiException(m.kind)
    IN  IF raised THEN [l EXCEPT !.metrics = "raised"]
        ELSE [l EXCEPT
                !.cpu_request = Num(Round2Cpu(cpu_request.v)),
                !.memory_request = memory_request,
                !.cpu_usage = Num(Round2Cpu(cpu_usage.v)),
                !.memory_usage = Num(Round2Mem(memory_usage.v)),
                !.unused_cpu = IF cpu_request.v > 0
                               THEN Num(Round2Cpu(cpu_request.v - cpu_usage.v))
                               ELSE Dash,
                !.metrics = m.kind]

\* The locals as the history keeps them for an iteration that raised before
\* the price lookup: what the metrics API answered and, for an entry, what
\* the conversion of its CPU usage gave.
RaisedLocals(l, m) ==
    [l EXCEPT !.metrics = m.kind,
              !.cpu_usage = IF m.kind = "entry"
                            THEN convert_to_millicores(QtyGet(m.cpu)) ELSE @]

\* The cost taken per ten cores.
CpuCostPerTenCores(cpu, price) == RoundDiv(cpu * price, 1000)

\* round((cpu / 1000) * cost_per_vcpu_per_hour, 8): cpu in thousandths of a
\* millicore times 1e-4 dollars is 1e-10 dollars.
CpuCost(cpu, price) == RoundDiv(cpu * price, 100)

\* round(x, 8) of a cost, which is held in units of 1e-8.
Round8(cost) == RoundDiv(cost, 1)

\* lines 243-252: the locals after them, raised = TRUE when a line raises.
\* "Unknown" > 0 raises TypeError; round of an unbound name raises
\* UnboundLocalError.
PodCosts(l, cost) ==
    LET positive == IsNum(cost) /\ cost.v > 0
        usage_cost == IF positive THEN Num(CpuCost(l.cpu_usage.v, cost.v))
                      ELSE l.usage_cost
        wastage_cost == IF positive
                        THEN IF l.cpu_request.v > 0
                             THEN Num(CpuCost(l.unused_cpu.v, cost.v))
                             ELSE Num(0)
                        ELSE l.wastage_cost
        raised == ~IsNum(cost) \/ usage_cost = Unbound \/ wastage_cost = Unbound
    IN  [raised |-> raised,
         usage_cost |-> usage_cost,
         wastage_cost |-> wastage_cost,
         pod_usage_cost |-> IF raised THEN Unbound ELSE Num(Round8(usage_cost.v)),
         pod_wastage_cost |-> IF raised THEN Unbound ELSE Num(Round8(wastage_cost.v))]

PodLabels(pod) ==
    <<eks_cluster_name, pod.namespace, get_deployment_name(pod), pod.name>>

\* What the pass did to one item.
Done(item, status, l, price, u, w, h) ==
    [name |-> item.name, status |-> status, metrics |-> l.metrics,
     cpu_request |-> l.cpu_request, cpu_usage |-> l.cpu_usage, price |-> price,
     usage_cost |-> u, wastage_cost |-> w, hourly_cost |-> h]

\* A thread started on gather_pod_metadata calls it.
CallGatherPods(t) ==
    /\ entry[t] = "gather_pod_metadata"
    /\ pc[t] = "ready"
    /\ pc' = [pc EXCEPT ![t] = "pod_sem"]
    /\ UNCHANGED <<cfgvars, elsewhere, cost_cache, cache_lock, lookvars, passvars,
                   lockvars, gaugevars>>

\* A with block that is left without giving its permit back.
SemaphoreKept(permits) == permits

\* lines 182 and 265: leaving "with semaphore", by the end of the block or
\* by an exception, releases the permit.
SemaphoreRelease(permits) == permits + 1

\* line 182: with semaphore (acquire)
PodSemAcquire(t) ==
    /\ pc[t] = "pod_sem"
    /\ semaphore > 0
    /\ semaphore' = semaphore - 1
    /\ pc' = [pc EXCEPT ![t] = "pod_list"]
    /\ UNCHANGED <<cfgvars, elsewhere, cost_cache, cache_lock, lookvars, passvars,
                   metrics_lock, gaugevars>>

\* lines 184-196: the configuration is loaded and the pods are listed; either
\* can raise.
PodList(t) ==
    /\ pc[t] = "pod_list"
    /\ \/ /\ \E l \in Listings(world.pods, world.maxItems) :
               /\ Distinct(l)
               /\ items' = [items EXCEPT ![t] = l]
          /\ idx' = [idx EXCEPT ![t] = 1]
          /\ pc' = [pc EXCEPT ![t] = "pod_loop"]
       \/ /\ world.listErrors
          /\ pc' = [pc EXCEPT ![t] = except_Exception("pod")]
          /\ UNCHANGED <<items, idx>>
    /\ loc' = [loc EXCEPT ![t] = Locals0]
    /\ out' = [out EXCEPT ![t] = <<>>]
    /\ caught' = [caught EXCEPT ![t] = pc'[t] = except_Exception("pod")]
    /\ UNCHANGED <<cfgvars, elsewhere, cost_cache, cache_lock, lookvars, lockvars,
                   gaugevars, phases>>

\* lines 198-241 for the pod at idx: skipped when its namespace is ignored,
\* otherwise its record is read and the price lookup is called.
PodRecord(t) ==
    /\ pc[t] = "pod_loop"
    /\ idx[t] <= Len(items[t])
    /\ LET pod == items[t][idx[t]]
       IN  IF pod.namespace \in ignore_namespaces
           THEN /\ idx' = [idx EXCEPT ![t] = @ + 1]
                /\ out' = [out EXCEPT ![t] =
                      Append(@, Done(pod, "ignored", loc[t], None, None, None, None))]
                /\ UNCHANGED <<pc, loc, caller, cache_key>>
           ELSE \E ans \in ReadNodeAnswers(pod.node_name),
                   m \in MetricsAnswers(world.podCpuUsage) :
                  LET l == PodRecordLocals(loc[t], pod, m)
                  IN  /\ loc' = [loc EXCEPT ![t] = l]
                      /\ IF l.metrics = "raised"
                         THEN /\ pc' = [pc EXCEPT ![t] = except_Exception("pod")]
                              /\ out' = [out EXCEPT ![t] =
                                    Append(@, Done(pod, "raised", RaisedLocals(l, m),
                                                   None, None, None, None))]
                              /\ UNCHANGED <<caller, cache_key>>
                         ELSE /\ pc' = [pc EXCEPT ![t] = "cost_lock"]
                              /\ caller' = [caller EXCEPT ![t] = "pod"]
                              /\ cache_key' = [cache_key EXCEPT ![t] = get_node_metadata(ans)]
                              /\ UNCHANGED out
                      /\ UNCHANGED idx
    /\ obs' = [obs EXCEPT ![t] = NoObs]
    /\ caught' = [caught EXCEPT ![t] = pc'[t] = except_Exception("pod")]
    /\ UNCHANGED <<cfgvars, elsewhere, cost_cache, cache_lock, response, ret, items,
                   lockvars, gaugevars, phases>>

\* lines 241-257 for the pod at idx, from the return of the price lookup:
\* the costs are computed and the two gauges are set.
PodPublish(t) ==
    /\ pc[t] = "cost_ret"
    /\ caller[t] = "pod"
    /\ LET pod == items[t][idx[t]]
           c == PodCosts(loc[t], ret[t])
           l == [loc[t] EXCEPT !.usage_cost = c.usage_cost,
                               !.wastage_cost = c.wastage_cost]
       IN  /\ loc' = [loc EXCEPT ![t] = l]
           /\ IF c.raised
              THEN /\ pc' = [pc EXCEPT ![t] = except_Exception("pod")]
                   /\ out' = [out EXCEPT ![t] =
                         Append(@, Done(pod, "raised", l, ret[t], None, None, None))]
                   /\ UNCHANGED <<idx, POD_USAGE_COST, POD_WASTAGE_COST>>
              ELSE /\ POD_USAGE_COST' =
                         GaugeSet(POD_USAGE_COST, PodLabels(pod), c.pod_usage_cost.v)
                   /\ POD_WASTAGE_COST' =
                         GaugeSet(POD_WASTAGE_COST, PodLabels(pod), c.pod_wastage_cost.v)
                   /\ out' = [out EXCEPT ![t] =
                         Append(@, Done(pod, "published", l, ret[t],
                                        c.pod_usage_cost, c.pod_wastage_cost, None))]
                   /\ idx' = [idx EXCEPT ![t] = @ + 1]
                   /\ pc' = [pc EXCEPT ![t] = "pod_loop"]
    /\ caller' = [caller EXCEPT ![t] = "none"]
    /\ cache_key' = [cache_key EXCEPT ![t] = NoKey]
    /\ ret' = [ret EXCEPT ![t] = None]
    /\ obs' = [obs EXCEPT ![t] = NoObs]
    /\ caught' = [caught EXCEPT ![t] = pc'[t] = except_Exception("pod")]
    /\ UNCHANGED <<cfgvars, elsewhere, cost_cache, cache_lock, response, items, lockvars,
                   NODE_USAGE_COST, NODE_WASTAGE_COST, NODE_ACTUAL_COST, phases>>

\* line 198: the for loop has no pod left.
PodLoopEnd(t) ==
    /\ pc[t] = "pod_loop"
    /\ idx[t] > Len(items[t])
    /\ pc' = [pc EXCEPT ![t] = "pod_exit"]
    /\ UNCHANGED <<cfgvars, elsewhere, cost_cache, cache_lock, lookvars, passvars,
                   lockvars, gaugevars>>

\* The with block of line 182 is left: the semaphore is released and the
\* function returns, to its thread or to scrape_metrics (line 89).
PodExit(t) ==
    /\ pc[t] = "pod_exit"
    /\ semaphore' = SemaphoreRelease(semaphore)
    /\ pc' = [pc EXCEPT ![t] = IF entry[t] = "gather_pod_metadata"
                                THEN "done" ELSE "node_sem"]
    /\ items' = [items EXCEPT ![t] = <<>>]
    /\ idx' = [idx EXCEPT ![t] = 0]
    /\ loc' = [loc EXCEPT ![t] = NoLocals]
    /\ out' = [out EXCEPT ![t] = <<>>]
    /\ caught' = [caught EXCEPT ![t] = FALSE]
    /\ phases' = [phases EXCEPT ![t] =
          IF entry[t] = "gather_pod_metadata" THEN @
          ELSE Append(@, IF caught[t] THEN "pod raised" ELSE "pod")]
    /\ UNCHANGED <<cfgvars, elsewhere, cost_cache, cache_lock, lookvars, metrics_lock,
                   gaugevars>>

PodStep(t) ==
    \/ PodSemAcquire(t)
    \/ PodList(t)
    \/ PodRecord(t)
    \/ PodPublish(t)
    \/ PodLoopEnd(t)
    \/ PodExit(t)

\* -------------------------------------------------------------- node pass

\* lines 286-292: the locals at the start of a node's iteration.
NodeLocals0(l, total_cpu, total_memory) ==
    [l EXCEPT !.cpu_request = total_cpu, !.memory_request = total_memory,
              !.cpu_usage = Num(0), !.memory_usage = Num(0),
              !.hourly_cost = Unknown, !.usage_cost = Num(0),
              !.wastage_cost = Num(0)]

\* lines 286-306 for one node: the locals after them (cpu_request holds
\* total_cpu, cpu_usage holds current_cpu_usage), metrics = "raised" when a
\* line raises something that line 305 does not catch.
NodeRecordLocals(l, node, m) ==
    LET total_cpu == convert_to_millicores(QtyGet(node.cpu))
        total_memory == convert_to_megabytes(QtyGet(node.memory))
        current_cpu_usage == IF m.kind = "entry"
                             THEN convert_to_millicores(QtyGet(m.cpu)) ELSE Num(0)
        current_memory_usage == IF m.kind = "entry"
                                THEN convert_to_megabytes(QtyGet(m.memory))
                                ELSE Num(0)
        raised == \/ total_cpu = Raise \/ total_memory = Raise
                  \/ current_cpu_usage = Raise \/ current_memory_usage = Raise
                  \/ m.kind = "ApiException" /\ ~except_ApiException(m.kind)
    IN  IF raised THEN [l EXCEPT !.metrics = "raised"]
        ELSE [NodeLocals0(l, total_cpu, total_memory) EXCEPT
                !.cpu_usage = current_cpu_usage,
                !.memory_usage = current_memory_usage,
                !.metrics = m.kind]

\* line 312-313: round(float(price) * (total_cpu / 1000), 8)
HourlyCost(total_cpu, price) == RoundDiv(total_cpu * price, 100)

\* The share taken per core instead of per total_cpu.
ShareOfCore(cpu, total_cpu, hourly_cost) ==
    MulDivRound(cpu, hourly_cost, 1000 * 1000)

\* lines 314-317: round((cpu / total_cpu) * hourly_cost, 8)
ShareOfHourly(cpu, total_cpu, hourly_cost) ==
    MulDivRound(cpu, hourly_cost, total_cpu)

\* lines 310-328: the locals after them.  raised = TRUE when line 322 raises:
\* "Unknown" / 12 is a TypeError, outside the try of lines 309-319.
NodeCosts(l, cost) ==
    LET known == cost # Unknown /\ l.cpu_request.v > 0
        hourly_cost == IF known THEN Num(HourlyCost(l.cpu_request.v, cost.v))
                       ELSE l.hourly_cost
        usage_cost == IF known
                      THEN Num(ShareOfHourly(l.cpu_usage.v, l.cpu_request.v,
                                             hourly_cost.v))
                      ELSE l.usage_cost
        wastage_cost == IF known
                        THEN Num(ShareOfHourly(l.cpu_request.v - l.cpu_usage.v,
                                               l.cpu_request.v, hourly_cost.v))
                        ELSE l.wastage_cost
    IN  [raised |-> ~IsNum(hourly_cost),
         hourly_cost |-> hourly_cost,
         usage_cost |-> usage_cost,
         wastage_cost |-> wastage_cost]

NodeLabels(node) == <<eks_cluster_name, node.name, LabelGet(node.instance_type)>>
NodeCostLabels(node, hourly_cost) ==
    <<eks_cluster_name, node.name, LabelGet(node.instance_type), hourly_cost>>

\* A thread started on gather_node_metadata calls it.
CallGatherNodes(t) ==
    /\ entry[t] = "gather_node_metadata"
    /\ pc[t] = "ready"
    /\ pc' = [pc EXCEPT ![t] = "node_sem"]
    /\ UNCHANGED <<cfgvars, elsewhere, cost_cache, cache_lock, lookvars, passvars,
                   lockvars, gaugevars>>

\* line 265: with semaphore (acquire)
NodeSemAcquire(t) ==
    /\ pc[t] = "node_sem"
    /\ semaphore > 0
    /\ semaphore' = semaphore - 1
    /\ pc' = [pc EXCEPT ![t] = "node_list"]
    /\ UNCHANGED <<cfgvars, elsewhere, cost_cache, cache_lock, lookvars, passvars,
                   metrics_lock, gaugevars>>

\* lines 267-277: the configuration is loaded and the nodes are listed;
\* either can raise.
NodeList(t) ==
    /\ pc[t] = "node_list"
    /\ \/ /\ \E l \in Listings(world.nodes, world.maxItems) :
               /\ Distinct(l)
               /\ items' = [items EXCEPT ![t] = l]
          /\ idx' = [idx EXCEPT ![t] = 1]
          /\ pc' = [pc EXCEPT ![t] = "node_loop"]
       \/ /\ world.listErrors
          /\ pc' = [pc EXCEPT ![t] = except_Exception("node")]
          /\ UNCHANGED <<items, idx>>
    /\ loc' = [loc EXCEPT ![t] = Locals0]
    /\ out' = [out EXCEPT ![t] = <<>>]
    /\ caught' = [caught EXCEPT ![t] = pc'[t] = except_Exception("node")]
    /\ UNCHANGED <<cfgvars, elsewhere, cost_cache, cache_lock, lookvars, lockvars,
                   gaugevars, phases>>

\* lines 279-310 for the node at idx: its record is read and the price
\* lookup is called.
NodeRecord(t) ==
    /\ pc[t] = "node_loop"
    /\ idx[t] <= Len(items[t])
    /\ LET node == items[t][idx[t]]
       IN  \E m \in MetricsAnswers(world.nodeCpuUsage) :
             LET l == NodeRecordLocals(loc[t], node, m)
             IN  /\ loc' = [loc EXCEPT ![t] = l]
                 /\ IF l.metrics = "raised"
                    THEN /\ pc' = [pc EXCEPT ![t] = except_Exception("node")]
                         /\ out' = [out EXCEPT ![t] =
                               Append(@, Done(node, "raised", [l EXCEPT !.metrics = m.kind],
                                              None, None, None, None))]
                         /\ UNCHANGED <<caller, cache_key>>
                    ELSE /\ pc' = [pc EXCEPT ![t] = "cost_lock"]
                         /\ caller' = [caller EXCEPT ![t] = "node"]
                         /\ cache_key' = [cache_key EXCEPT ![t] =
                               get_node_metadata([kind |-> "node", node |-> node])]
                         /\ UNCHANGED out
    /\ obs' = [obs EXCEPT ![t] = NoObs]
    /\ caught' = [caught EXCEPT ![t] = pc'[t] = except_Exception("node")]
    /\ UNCHANGED <<cfgvars, elsewhere, cost_cache, cache_lock, response, ret, items, idx,
                   lockvars, gaugevars, phases>>

\* lines 310-335 for the node at idx, from the return of the price lookup:
\* the costs are computed and the three gauges are set.
NodePublish(t) ==
    /\ pc[t] = "cost_ret"
    /\ caller[t] = "node"
    /\ LET node == items[t][idx[t]]
           c == NodeCosts(loc[t], ret[t])
           l == [loc[t] EXCEPT !.hourly_cost = c.hourly_cost,
                               !.usage_cost = c.usage_cost,
                               !.wastage_cost = c.wastage_cost]
       IN  /\ loc' = [loc EXCEPT ![t] = l]
           /\ IF c.raised
              THEN /\ pc' = [pc EXCEPT ![t] = except_Exception("node")]
                   /\ out' = [out EXCEPT ![t] =
                         Append(@, Done(node, "raised", l, ret[t], None, None, None))]
                   /\ UNCHANGED <<idx, NODE_USAGE_COST, NODE_WASTAGE_COST,
                                  NODE_ACTUAL_COST>>
              ELSE /\ NODE_USAGE_COST' =
                         GaugeSet(NODE_USAGE_COST,
                                  NodeCostLabels(node, c.hourly_cost.v), c.usage_cost.v)
                   /\ NODE_WASTAGE_COST' =
                         GaugeSet(NODE_WASTAGE_COST,
                                  NodeCostLabels(node, c.hourly_cost.v), c.wastage_cost.v)
                   /\ NODE_ACTUAL_COST' =
                         GaugeSet(NODE_ACTUAL_COST, NodeLabels(node), c.hourly_cost.v)
                   /\ out' = [out EXCEPT ![t] =
                         Append(@, Done(node, "published", l, ret[t],
                                        c.usage_cost, c.wastage_cost, c.hourly_cost))]
                   /\ idx' = [idx EXCEPT ![t] = @ + 1]
                   /\ pc' = [pc EXCEPT ![t] = "node_loop"]
    /\ caller' = [caller EXCEPT ![t] = "none"]
    /\ cache_key' = [cache_key EXCEPT ![t] = NoKey]
    /\ ret' = [ret EXCEPT ![t] = None]
    /\ obs' = [obs EXCEPT ![t] = NoObs]
    /\ caught' = [caught EXCEPT ![t] = pc'[t] = except_Exception("node")]
    /\ UNCHANGED <<cfgvars, elsewhere, cost_cache, cache_lock, response, items, lockvars,
                   POD_USAGE_COST, POD_WASTAGE_COST, phases>>

\* line 279: the for loop has no node left.
NodeLoopEnd(t) ==
    /\ pc[t] = "node_loop"
    /\ idx[t] > Len(items[t])
    /\ pc' = [pc EXCEPT ![t] = "node_exit"]
    /\ UNCHANGED <<cfgvars, elsewhere, cost_cache, cache_lock, lookvars, passvars,
                   lockvars, gaugevars>>

\* The with block of line 265 is left: the semaphore is released and the
\* function returns, to its thread or to scrape_metrics (end of line 89).
NodeExit(t) ==
    /\ pc[t] = "node_exit"
    /\ semaphore' = SemaphoreRelease(semaphore)
    /\ pc' = [pc EXCEPT ![t] = IF entry[t] = "gather_node_metadata"
                                THEN "done" ELSE "scrape_exit"]
    /\ items' = [items EXCEPT ![t] = <<>>]
    /\ idx' = [idx EXCEPT ![t] = 0]
    /\ loc' = [loc EXCEPT ![t] = NoLocals]
    /\ out' = [out EXCEPT ![t] = <<>>]
    /\ caught' = [caught EXCEPT ![t] = FALSE]
    /\ phases' = [phases EXCEPT ![t] =
          IF entry[t] = "gather_node_metadata" THEN @
          ELSE Append(@, IF caught[t] THEN "node raised" ELSE "node")]
    /\ UNCHANGED <<cfgvars, elsewhere, cost_cache, cache_lock, lookvars, metrics_lock,
                   gaugevars>>

NodeStep(t) ==
    \/ NodeSemAcquire(t)
    \/ NodeList(t)
    \/ NodeRecord(t)
    \/ NodePublish(t)
    \/ NodeLoopEnd(t)
    \/ NodeExit(t)

\* ------------------------------------------------- scrape_metrics, run_scrape

\* scrape_metrics without its lock.
MetricsLockIgnored == TRUE

\* line 87: with metrics_lock blocks until the lock is free.
MetricsLockFree == metrics_lock = {}

\* line 87: with metrics_lock (acquire), by a thread started on
\* scrape_metrics or on run_scrape (line 345).
ScrapeAcquire(t) ==
    /\ entry[t] \in {"scrape_metrics", "run_scrape"}
    /\ pc[t] = "ready"
    /\ MetricsLockFree
    /\ metrics_lock' = {t}
    /\ pc' = [pc EXCEPT ![t] = "pod_sem"]
    /\ UNCHANGED <<cfgvars, elsewhere, cost_cache, cache_lock, lookvars, passvars,
                   semaphore, gaugevars>>

\* The with block of line 87 is left: metrics_lock is released and
\* scrape_metrics returns.
ScrapeRelease(t) ==
    /\ pc[t] = "scrape_exit"
    /\ metrics_lock' = {}
    /\ pc' = [pc EXCEPT ![t] = IF entry[t] = "run_scrape" THEN "sleep" ELSE "done"]
    /\ phases' = [phases EXCEPT ![t] = <<>>]
    /\ UNCHANGED <<cfgvars, elsewhere, cost_cache, cache_lock, lookvars, items, idx, loc,
                   out, caught, semaphore, gaugevars>>

\* line 346: time.sleep(300), then the next turn of the while loop.
Sleep(t) ==
    /\ pc[t] = "sleep"
    /\ cost_cache' = Aged(cost_cache, SCRAPE_INTERVAL)
    /\ pc' = [pc EXCEPT ![t] = "ready"]
    /\ UNCHANGED <<cfgvars, elsewhere, cache_lock, lookvars, passvars, lockvars, gaugevars>>

ScrapeStep(t) ==
    \/ ScrapeAcquire(t)
    \/ PodStep(t)
    \/ NodeStep(t)
    \/ LookupStep(t)
    \/ ScrapeRelease(t)

\* ---------------------------------------------------------- pricing server
\* src/kube-cost-server/kube_resource_server.py.  Prices are in 1e-4 dollars,
\* as round(x, 4) leaves them; a price string of the AWS price list is in
\* 1e-6 dollars.

\* A field of the request's JSON object: absent, or a string.
NoField == [set |-> FALSE, s |-> ""]
Field(s) == [set |-> TRUE, s |-> s]

\* What request.get_json() returns: None, a JSON object with some of the
\* three fields, or a JSON value that is not an object (an array).
JsonNone == [kind |-> "None", empty |-> TRUE, region |-> NoField,
             instance_type |-> NoField, operating_system |-> NoField]
JsonObject(r, i, o) ==
    [kind |-> "object",
     empty |-> (r = NoField /\ i = NoField /\ o = NoField),
     region |-> r, instance_type |-> i, operating_system |-> o]
JsonArray(empty) == [kind |-> "array", empty |-> empty, region |-> NoField,
                     instance_type |-> NoField, operating_system |-> NoField]

\* The keys of REGION_MAPPING (lines 16-44); the names they map to go only
\* into the filter of the pricing query.
REGION_MAPPING ==
    {"us-east-1", "us-east-2", "us-west-1", "us-west-2", "eu-west-1",
     "eu-west-2", "eu-west-3", "eu-central-1", "ap-southeast-1",
     "ap-southeast-2", "ap-northeast-1", "ap-northeast-2", "ap-northeast-3",
     "ap-south-1", "sa-east-1", "ca-central-1", "us-gov-west-1",
     "us-gov-east-1", "cn-north-1", "cn-northwest-1", "eu-north-1",
     "me-south-1", "af-south-1", "ap-east-1", "ap-south-2", "eu-south-1",
     "eu-south-2"}

\* What get_products answers: it raises, or returns a PriceList of n
\* products whose first has the vcpu attribute ("absent" when it has none)
\* and OnDemand terms: "absent", "empty", or one price dimension of usd.
AwsRaises(exc) == [kind |-> exc, n |-> 0, vcpu |-> "absent",
                   terms |-> "absent", usd |-> 0]
AwsProducts(n, vcpu, terms, usd) ==
    [kind |-> "products", n |-> n, vcpu |-> vcpu, terms |-> terms, usd |-> usd]

\* int(vcpu_count), for the strings the model uses.
IntOf(str) == CASE str = "0" -> 0 [] str = "2" -> 2 [] str = "4" -> 4

\* The value a function returns or the exception it raises.
Returns(price, per_cpu_cost, vcpu_count) ==
    [kind |-> "return", exc |-> "", price |-> price,
     per_cpu_cost |-> per_cpu_cost, vcpu_count |-> vcpu_count]
Raises(exc) == [kind |-> "raise", exc |-> exc, price |-> None,
                per_cpu_cost |-> None, vcpu_count |-> None]
ReturnsNone == Returns(None, None, None)

\* lines 51-101: the body of the try of get_pricing_data.  A for loop over no
\* term ends without a return, and line 107 is reached.
PricingTry(region, aws) ==
    IF ~(region.set /\ region.s \in REGION_MAPPING) THEN Raises("ValueError")
    ELSE IF aws.kind # "products" THEN Raises(aws.kind)
    ELSE IF aws.n = 0 THEN Raises("ValueError")
    ELSE IF aws.terms = "absent" THEN Raises("KeyError")
    ELSE IF aws.vcpu = "absent" THEN Raises("ValueError")
    ELSE IF aws.vcpu \notin {"0", "2", "4"} THEN Raises("ValueError")
    ELSE IF aws.terms = "empty" THEN ReturnsNone
    ELSE IF aws.terms = "unparsable" THEN Raises("ValueError")
    ELSE IF IntOf(aws.vcpu) = 0 THEN Raises("ZeroDivisionError")
    ELSE Returns(Num(RoundDiv(aws.usd, 100)),
                 Num(RoundDiv(aws.usd, 100 * IntOf(aws.vcpu))),
                 Num(IntOf(aws.vcpu)))

\* lines 103-106: except (BotoCoreError, ClientError), then except Exception.
except_ServerException(exc) ==
    exc \in {"BotoCoreError", "ClientError", "ValueError", "KeyError",
             "ZeroDivisionError", "TypeError", "AttributeError"}

\* lines 47-107
get_pricing_data(region, instance_type, operating_system, aws) ==
    LET r == PricingTry(region, aws)
    IN  IF r.kind = "raise" /\ except_ServerException(r.exc) THEN ReturnsNone
        ELSE r

\* A reply: its status, and its JSON body: an error message, or the three
\* pricing fields.  A reply that Flask makes for an exception the handler
\* did not catch has neither.
NoReply == [status |-> 0, error |-> "", pricing |-> FALSE,
            cost_per_vcpu_per_hour |-> None]
ErrorReply(status, message) ==
    [status |-> status, error |-> message, pricing |-> FALSE,
     cost_per_vcpu_per_hour |-> None]
PricingReply(r) ==
    [status |-> 200, error |-> "", pricing |-> TRUE,
     cost_per_vcpu_per_hour |-> r.per_cpu_cost]
UnhandledReply == [status |-> 500, error |-> "", pricing |-> FALSE,
                   cost_per_vcpu_per_hour |-> None]

\* not x, of a field: None and "" are falsy.
Falsy(f) == ~f.set \/ f.s = ""

NoAws == AwsRaises("none")
ServerIdle == [pc |-> "idle", data |-> JsonNone, aws |-> NoAws,
               result |-> ReturnsNone, reply |-> NoReply]

\* Requests the server is sent, and answers AWS gives.
ServerRequests ==
    {JsonNone, JsonArray(TRUE), JsonArray(FALSE)}
        \cup {JsonObject(r, i, o) :
                r \in {NoField, Field(""), Field("us-east-1"), Field("Unknown")},
                i \in {NoField, Field(""), Field("m5.large")},
                o \in {NoField, Field("linux")}}
AwsAnswers ==
    {AwsRaises("ClientError"), AwsRaises("BotoCoreError"),
     AwsProducts(0, "absent", "absent", 0)}
        \cup {AwsProducts(1, v, t, 960000) :
                v \in {"absent", "two", "0", "2"},
                t \in {"absent", "empty", "unparsable", "priced"}}
        \cup {AwsProducts(1, "4", "priced", u) : u \in {0, 49, 1920000}}

\* line 113: a POST to /api/pricing arrives and its JSON is read.
PricingApiReceive ==
    /\ server.pc = "idle"
    /\ \E data \in ServerRequests :
         server' = [ServerIdle EXCEPT !.pc = "validate", !.data = data]
    /\ UNCHANGED <<collectorvars, unit>>

\* lines 115-125.  data.get of a JSON value that is not an object raises
\* AttributeError, which nothing in the handler catches.
PricingApiValidate ==
    /\ server.pc = "validate"
    /\ LET data == server.data
       IN  server' =
             IF data.kind = "None" \/ data.empty
             THEN [server EXCEPT !.pc = "idle",
                                 !.reply = ErrorReply(400, "No data received")]
             ELSE IF data.kind # "object"
             THEN [server EXCEPT !.pc = "idle", !.reply = UnhandledReply,
                                 !.result = Raises("AttributeError")]
             ELSE IF Falsy(data.region) \/ Falsy(data.instance_type)
                        \/ Falsy(data.operating_system)
             THEN [server EXCEPT !.pc = "idle",
                                 !.reply = ErrorReply(400,
                                     "Missing required parameters: region, instance_type, operating_system")]
             ELSE [server EXCEPT !.pc = "lookup"]
    /\ UNCHANGED <<collectorvars, unit>>

\* line 127: get_pricing_data is called and AWS answers.
PricingApiLookup ==
    /\ server.pc = "lookup"
    /\ \E aws \in AwsAnswers :
         server' = [server EXCEPT
                      !.pc = "respond",
                      !.aws = aws,
                      !.result = get_pricing_data(server.data.region,
                                                  server.data.instance_type,
                                                  server.data.operating_system, aws)]
    /\ UNCHANGED <<collectorvars, unit>>

\* lines 128-135
PricingApiRespond ==
    /\ server.pc = "respond"
    /\ server' =
         [server EXCEPT
            !.pc = "idle",
            !.reply = IF server.result.kind = "raise" THEN UnhandledReply
                      ELSE IF server.result.price # None
                      THEN PricingReply(server.result)
                      ELSE ErrorReply(500, "Could not fetch pricing data")]
    /\ UNCHANGED <<collectorvars, unit>>

pricing_api ==
    \/ PricingApiReceive
    \/ PricingApiValidate
    \/ PricingApiLookup
    \/ PricingApiRespond

\* ------------------------------------------------------- converter calls

\* No converter was called.
NoCall == [f |-> "none", arg |-> Qty(0, ""), result |-> None]

\* The strings the converters are called with: their numeric parts and
\* suffixes, and strings whose numeric part cannot be parsed.
CpuStrings ==
    {Qty(n, "m") : n \in 0 .. 10 \cup {250, 500, 1000, 1500}}
        \cup {Qty(n * 1000, "n") : n \in 0 .. 10 \cup {500, 123457, 500000, 1500000}}
        \cup {Qty(n, "") : n \in 0 .. 4}
        \cup {BadQty(u) : u \in {"n", "m", ""}}
MemoryStrings ==
    {Qty(n, "Ki") : n \in 0 .. 4 \cup {1024, 65536, 16000000}}
        \cup {Qty(n, "Mi") : n \in 0 .. 4 \cup {128, 512}}
        \cup {Qty(n, "Gi") : n \in 0 .. 4}
        \cup {Qty(n, "") : n \in 0 .. 4 \cup {256}}
        \cup {BadQty(u) : u \in {"Ki", "Mi", "Gi", ""}}

\* A converter is called with a string.
CallConverter ==
    /\ unit.result # Unbound
    /\ \/ \E q \in CpuStrings :
            unit' = [f |-> "convert_to_millicores", arg |-> q, result |-> Unbound]
       \/ \E q \in MemoryStrings :
            unit' = [f |-> "convert_to_megabytes", arg |-> q, result |-> Unbound]
    /\ UNCHANGED <<collectorvars, server>>

\* lines 91-97: convert_to_millicores returns or raises.
ReturnMillicores ==
    /\ unit.f = "convert_to_millicores"
    /\ unit.result = Unbound
    /\ unit' = [unit EXCEPT !.result = convert_to_millicores(unit.arg)]
    /\ UNCHANGED <<collectorvars, server>>

\* lines 99-107: convert_to_megabytes returns or raises.
ReturnMegabytes ==
    /\ unit.f = "convert_to_megabytes"
    /\ unit.result = Unbound
    /\ unit' = [unit EXCEPT !.result = convert_to_megabytes(unit.arg)]
    /\ UNCHANGED <<collectorvars, server>>

\* ------------------------------------------------------------------ worlds

MaxItems == 2

Node1 == Node("n1", "us-east-1", "m5.large", "linux", Qty(4, ""), Qty(16000000, "Ki"))
Node2 == Node("n2", "", "t3.small", "linux", Qty(0, ""), Qty(2, "Gi"))
Key1 == get_node_metadata([kind |-> "node", node |-> Node1])
Node3 == Node("n3", "eu-west-1", "t3.small", "linux", Qty(2000, "m"), Qty(4, "Gi"))
Key2 == get_node_metadata([kind |-> "node", node |-> Node2])
Key3 == get_node_metadata([kind |-> "node", node |-> Node3])

Pod1 == Pod("loadapp", "web-1", "n1",
            Requests(Qty(1000, "m"), Qty(128, "Mi")), <<"web", "7d9f">>)
Pod2 == Pod("costapp", "job-1", "n2", NoRequests, <<>>)
Pod3 == Pod("kube-system", "dns-1", "n1",
            Requests(Qty(100, "m"), NoQty), <<"dns", "55c4">>)

\* Sequential lookups of two keys.
CacheWorld ==
    [keys |-> {Key1, Key2},
     prices |-> {0, 400, 500},
     ticks |-> {100, 250}]

\* One pod pass after another.
PodWorld ==
    [keys |-> {Key1, Key2, KeyUnknown},
     prices |-> {0, 500},
     ticks |-> {300},
     pods |-> {Pod1, Pod2, Pod3},
     nodes |-> {Node1, Node2},
     maxItems |-> MaxItems,
     podCpuUsage |-> {Qty(250, "m"), Qty(1500000000, "n"), BadQty("m")},
     nodeCpuUsage |-> {},
     memUsage |-> {Qty(65536, "Ki")},
     apiErrors |-> {TRUE},
     listErrors |-> TRUE]

\* One node pass.
NodeWorld ==
    [keys |-> {Key1, Key2, Key3},
     prices |-> {0, 400, 401},
     ticks |-> {300},
     pods |-> {},
     nodes |-> {Node1, Node2, Node3},
     maxItems |-> MaxItems,
     podCpuUsage |-> {},
     nodeCpuUsage |-> {Qty(1000, "m"), Qty(123457000, "n")},
     memUsage |-> {Qty(65536, "Ki")},
     apiErrors |-> {TRUE},
     listErrors |-> TRUE]

\* Concurrent calls of scrape_metrics.
ScrapeWorld ==
    [keys |-> {Key1},
     prices |-> {500},
     ticks |-> {300},
     pods |-> {Pod1, Pod3},
     nodes |-> {Node1},
     maxItems |-> MaxItems,
     podCpuUsage |-> {Qty(250, "m")},
     nodeCpuUsage |-> {Qty(1000, "m")},
     memUsage |-> {Qty(65536, "Ki")},
     apiErrors |-> {TRUE},
     listErrors |-> TRUE]

\* The scrape loop.
RunWorld ==
    [keys |-> {Key1},
     prices |-> {500},
     ticks |-> {300},
     pods |-> {Pod1, Pod3},
     nodes |-> {Node1},
     maxItems |-> MaxItems,
     podCpuUsage |-> {Qty(250, "m")},
     nodeCpuUsage |-> {Qty(1000, "m")},
     memUsage |-> {Qty(65536, "Ki")},
     apiErrors |-> {TRUE},
     listErrors |-> TRUE]

InitWith(w, e) ==
    /\ world = w
    /\ entry = e
    /\ pc = [t \in Threads |-> "ready"]
    /\ caller = [t \in Threads |-> "none"]
    /\ cost_cache = EmptyDict
    /\ cache_lock = {}
    /\ cache_key = [t \in Threads |-> NoKey]
    /\ response = [t \in Threads |-> None]
    /\ ret = [t \in Threads |-> None]
    /\ obs = [t \in Threads |-> NoObs]
    /\ metrics_lock = {}
    /\ semaphore = SemaphoreCapacity
    /\ items = [t \in Threads |-> <<>>]
    /\ idx = [t \in Threads |-> 0]
    /\ loc = [t \in Threads |-> NoLocals]
    /\ out = [t \in Threads |-> <<>>]
    /\ caught = [t \in Threads |-> FALSE]
    /\ phases = [t \in Threads |-> <<>>]
    /\ POD_USAGE_COST = EmptyDict
    /\ POD_WASTAGE_COST = EmptyDict
    /\ NODE_USAGE_COST = EmptyDict
    /\ NODE_WASTAGE_COST = EmptyDict
    /\ NODE_ACTUAL_COST = EmptyDict
    /\ server = ServerIdle
    /\ unit = NoCall

Only(t0, f) == [t \in Threads |-> IF t = t0 THEN f ELSE "none"]

\* Sequential lookups: one thread calling get_cost_per_vcpu_per_hour.
InitCache == InitWith(CacheWorld, Only(1, "get_cost_per_vcpu_per_hour"))

NextCache ==
    \/ \E t \in Threads : CallLookup(t) \/ LookupStep(t) \/ LookupReturn(t)
    \/ Tick

SpecCache == InitCache /\ [][NextCache]_vars

\* One thread calling gather_pod_metadata.
InitPods == InitWith(PodWorld, Only(1, "gather_pod_metadata"))

NextPods ==
    \/ \E t \in Threads : CallGatherPods(t) \/ PodStep(t) \/ LookupStep(t)
    \/ Tick

SpecPods == InitPods /\ [][NextPods]_vars

\* One thread calling gather_node_metadata.
InitNodes == InitWith(NodeWorld, Only(1, "gather_node_metadata"))

NextNodes ==
    \/ \E t \in Threads : CallGatherNodes(t) \/ NodeStep(t) \/ LookupStep(t)
    \/ Tick

SpecNodes == InitNodes /\ [][NextNodes]_vars

\* Threads calling scrape_metrics at the same time.
ScrapeCallers == 2
InitScrape ==
    InitWith(ScrapeWorld,
             [t \in Threads |-> IF t <= ScrapeCallers THEN "scrape_metrics" ELSE "none"])

NextScrape ==
    \/ \E t \in Threads : ScrapeStep(t)
    \/ Tick

SpecScrape == InitScrape /\ [][NextScrape]_vars

\* The program: one thread started on run_scrape (line 355).
Driver == 1
InitRun == InitWith(RunWorld, Only(Driver, "run_scrape"))

NextRun ==
    \/ \E t \in Threads : ScrapeStep(t) \/ Sleep(t)
    \/ Tick

Spec == InitRun /\ [][NextRun]_vars

\* The driver thread is scheduled again and again, and none of its calls
\* blocks for ever: a step it can take is taken.
FairSpec == Spec /\ WF_vars(ScrapeStep(Driver) \/ Sleep(Driver))

\* The pricing server handling one request after another.
InitServer == InitWith(RunWorld, Only(Driver, "none"))

NextServer == pricing_api

SpecServer == InitServer /\ [][NextServer]_vars

\* Calls of the unit converters, one after another.
InitUnits == InitWith(RunWorld, Only(Driver, "none"))

NextUnits == CallConverter \/ ReturnMillicores \/ ReturnMegabytes

SpecUnits == InitUnits /\ [][NextUnits]_vars

\* Threads calling gather_pod_metadata, gather_node_metadata and
\* scrape_metrics at the same time, each function called by every third
\* thread.  The cluster lists only pods of an ignored namespace and no
\* node, so no pass reaches a price lookup: the steps of Next are the steps
\* such a pass can take.
GateWorld ==
    [keys |-> {},
     prices |-> {},
     ticks |-> {},
     pods |-> {Pod3},
     nodes |-> {},
     maxItems |-> MaxItems,
     podCpuUsage |-> {},
     nodeCpuUsage |-> {},
     memUsage |-> {},
     apiErrors |-> {},
     listErrors |-> TRUE]

GateEntry(t) ==
    IF t % 3 = 1 THEN "gather_pod_metadata"
    ELSE IF t % 3 = 2 THEN "gather_node_metadata"
    ELSE "scrape_metrics"

InitGate == InitWith(GateWorld, [t \in Threads |-> GateEntry(t)])

NextGate ==
    \E t \in Threads :
        \/ CallGatherPods(t) \/ CallGatherNodes(t) \/ ScrapeAcquire(t)
        \/ PodSemAcquire(t) \/ PodList(t) \/ PodRecord(t) \/ PodLoopEnd(t)
        \/ PodExit(t)
        \/ NodeSemAcquire(t) \/ NodeList(t) \/ NodeLoopEnd(t) \/ NodeExit(t)
        \/ ScrapeRelease(t)

SpecGate == InitGate /\ [][NextGate]_vars

\* The scrape loop over a cluster whose listings and prices change from one
\* cycle to the next.
CyclesWorld ==
    [keys |-> {Key1, KeyUnknown},
     prices |-> {400, 500},
     ticks |-> {300},
     pods |-> {Pod1},
     nodes |-> {Node1},
     maxItems |-> MaxItems,
     podCpuUsage |-> {Qty(250, "m")},
     nodeCpuUsage |-> {Qty(1000, "m")},
     memUsage |-> {Qty(65536, "Ki")},
     apiErrors |-> {},
     listErrors |-> FALSE]

InitCycles == InitWith(CyclesWorld, Only(Driver, "run_scrape"))

SpecCycles == InitCycles /\ [][NextRun]_vars

\* The scrape loop over a cluster whose pods come and go: each cycle lists
\* some of them.
ListingsWorld ==
    [keys |-> {Key1, KeyUnknown},
     prices |-> {500},
     ticks |-> {300},
     pods |-> {Pod1, Pod2, Pod3},
     nodes |-> {Node1},
     maxItems |-> MaxItems,
     podCpuUsage |-> {Qty(250, "m")},
     nodeCpuUsage |-> {Qty(1000, "m")},
     memUsage |-> {Qty(65536, "Ki")},
     apiErrors |-> {},
     listErrors |-> FALSE]

InitListings == InitWith(ListingsWorld, Only(Driver, "run_scrape"))

SpecListings == InitListings /\ [][NextRun]_vars

\* Threads calling get_cost_per_vcpu_per_hour, gather_pod_metadata,
\* scrape_metrics and gather_node_metadata at the same time: one thread for
\* each of the first three, every further thread a node pass.
LocksWorld ==
    [keys |-> {Key1},
     prices |-> {},
     ticks |-> {},
     pods |-> {Pod1},
     nodes |-> {},
     maxItems |-> MaxItems,
     podCpuUsage |-> {Qty(250, "m")},
     nodeCpuUsage |-> {},
     memUsage |-> {Qty(65536, "Ki")},
     apiErrors |-> {},
     listErrors |-> FALSE]

LocksEntry(t) ==
    IF t = 1 THEN "get_cost_per_vcpu_per_hour"
    ELSE IF t = 2 THEN "gather_pod_metadata"
    ELSE IF t = 3 THEN "scrape_metrics"
    ELSE "gather_node_metadata"

\* The mixes of callers: one thread per function, and the same with a
\* fourth user of the semaphore in place of the first caller of the lookup.
LocksMixes ==
    {[t \in Threads |-> LocksEntry(t)],
     [t \in Threads |-> IF t = 1 THEN "gather_node_metadata" ELSE LocksEntry(t)]}

InitLocks == \E e \in LocksMixes : InitWith(LocksWorld, e)

\* A step of thread t, whatever function it was started on.  The cluster
\* has one pod and no node, so a node pass has nothing to record.
LocksStep(t) ==
    \/ CallLookup(t) \/ LookupReturn(t)
    \/ CallGatherPods(t) \/ CallGatherNodes(t)
    \/ ScrapeAcquire(t) \/ ScrapeRelease(t)
    \/ LookupStep(t)
    \/ PodStep(t)
    \/ NodeSemAcquire(t) \/ NodeList(t) \/ NodeLoopEnd(t) \/ NodeExit(t)

NextLocks == \E t \in Threads : LocksStep(t)

SpecLocks == InitLocks /\ [][NextLocks]_vars

\* ------------------------------------------------------------------ claims

LookupPcs == {"cost_lock", "cost_check", "cost_fetch", "cost_lock2",
              "cost_store", "cost_ret"}
InPodPhase(t) ==
    \/ pc[t] \in {"pod_list", "pod_loop", "pod_exit"}
    \/ pc[t] \in LookupPcs /\ caller[t] = "pod"
InNodePhase(t) ==
    \/ pc[t] \in {"node_list", "node_loop", "node_exit"}
    \/ pc[t] \in LookupPcs /\ caller[t] = "node"
\* Thread t is between the start of its cycle's pod phase and the end of
\* its node phase.
InCycle(t) ==
    \/ InPodPhase(t) \/ InNodePhase(t)
    \/ pc[t] \in {"pod_sem", "node_sem", "scrape_exit"}

\* The items after position i were all processed: each has its record, and
\* none of them was left by an exception.
LaterProcessed(t, i) ==
    /\ Len(out[t]) = Len(items[t])
    /\ \A j \in (i + 1) .. Len(out[t]) : out[t][j].status # "raised"

\* C1 (as claimed): a pod whose price lookup returned Unknown is published
\* with usage cost 0 and wastage cost 0, nothing is raised, and at the end of
\* the pass every later pod was processed.
C1_UnknownPricePublishedZero ==
    \A t \in Threads : \A i \in 1 .. Len(out[t]) :
        out[t][i].price = Unknown =>
            /\ out[t][i].status = "published"
            /\ out[t][i].usage_cost = Num(0)
            /\ out[t][i].wastage_cost = Num(0)
            /\ pc[t] = "pod_exit" => LaterProcessed(t, i)

\* C2 (as claimed): a node whose total CPU is 0 or whose price is Unknown is
\* published with usage cost 0 and wastage cost 0, and at the end of the
\* pass every later node was processed.
C2_ZeroCapacityOrUnknownPricePublishedZero ==
    \A t \in Threads : \A i \in 1 .. Len(out[t]) :
        (out[t][i].price # None
            /\ (out[t][i].cpu_request = Num(0) \/ out[t][i].price = Unknown)) =>
            /\ out[t][i].status = "published"
            /\ out[t][i].usage_cost = Num(0)
            /\ out[t][i].wastage_cost = Num(0)
            /\ pc[t] = "node_exit" => LaterProcessed(t, i)

\* C3 (as claimed): a pod or node whose metrics listing has no entry of its
\* name has its usage taken as zero and is still published, at every
\* position of the listing.
C3_NoMetricsEntryPublishedZeroUsage ==
    \A t \in Threads : \A i \in 1 .. Len(out[t]) :
        out[t][i].metrics = "no entry" =>
            /\ out[t][i].status = "published"
            /\ out[t][i].cpu_usage = Num(0)

\* C4 (as claimed): when get_cost_per_vcpu_per_hour returns Unknown, the
\* cache holds no entry for the key.
C4_UnknownIsNotCached ==
    \A t \in Threads :
        (pc[t] = "cost_ret" /\ ret[t] = Unknown) =>
            cache_key[t] \notin DOMAIN cost_cache

\* C5: a lookup that finds an entry of its key younger than 300 seconds
\* returns the entry's price and issues no upstream request.
C5_FreshEntryServedFromCache ==
    \A t \in Threads :
        (pc[t] = "cost_ret" /\ obs[t].seen.present /\ obs[t].seen.age < 300) =>
            /\ ret[t] = obs[t].seen.value
            /\ obs[t].nreq = 0

C5_Witness ==
    \E t \in Threads :
        /\ pc[t] = "cost_ret"
        /\ obs[t].seen.present /\ obs[t].seen.age > 0 /\ obs[t].seen.age < 300
        /\ ret[t] = Num(500)
        /\ obs[t].nreq = 0

\* C6: a lookup that finds an entry of its key aged 300 seconds or more
\* removes it, and nothing else, from the cache; it issues exactly one
\* upstream request; when the request succeeds the cache is left with one
\* entry of the key, holding the fetched price at age 0 (stamped as the
\* request completes), and every other key's entry as it was.
C6_ExpiredEntryRefetched ==
    [][\A t \in Threads :
         LET k == cache_key[t]
             expired == obs'[t].seen.present /\ obs'[t].seen.age >= 300
         IN  /\ (pc[t] = "cost_check" /\ pc'[t] # "cost_check" /\ expired) =>
                   /\ pc'[t] = "cost_fetch"
                   /\ DOMAIN cost_cache' = DOMAIN cost_cache \ {k}
                   /\ \A x \in DOMAIN cost_cache' : cost_cache'[x] = cost_cache[x]
             /\ (pc[t] = "cost_fetch" /\ pc'[t] # "cost_fetch" /\ expired) =>
                   /\ obs'[t].nreq = 1
                   /\ cost_cache' = cost_cache
                   /\ pc'[t] = "cost_ret" => ret'[t] = Unknown
             /\ (pc[t] = "cost_store" /\ pc'[t] = "cost_ret" /\ expired) =>
                   /\ obs'[t].nreq = 1
                   /\ ret'[t] = obs'[t].fetched
                   /\ DOMAIN cost_cache' = DOMAIN cost_cache \cup {k}
                   /\ cost_cache'[k] = Entry(obs'[t].fetched, 0)
                   /\ \A x \in DOMAIN cost_cache \ {k} :
                        cost_cache'[x] = cost_cache[x]
      ]_vars

C6_Witness ==
    \E t \in Threads :
        /\ pc[t] = "cost_ret"
        /\ obs[t].seen.present /\ obs[t].seen.age >= 300
        /\ obs[t].seen.value = Num(400)
        /\ obs[t].nreq = 1
        /\ ret[t] = Num(500)
        /\ cost_cache[cache_key[t]] = Entry(Num(500), 0)
        /\ Cardinality(DOMAIN cost_cache) = 2

\* C7: while a thread is between the start of its cycle's pod phase and the
\* end of its node phase, no other thread is inside a cycle; a thread's
\* node phase runs only after the pod phase of the same cycle has finished,
\* and its pod phase only as the first phase of the cycle.
C7_CyclesDoNotInterleave ==
    \A t \in Threads :
        /\ InCycle(t) => \A u \in Threads \ {t} : ~InCycle(u)
        /\ (InNodePhase(t) \/ pc[t] = "node_sem") =>
              phases[t] \in {<<"pod">>, <<"pod raised">>}
        /\ (InPodPhase(t) \/ pc[t] = "pod_sem") => phases[t] = <<>>

C7_Witness ==
    \E t, u \in Threads :
        /\ t # u
        /\ InNodePhase(t) /\ pc[t] = "cost_fetch"
        /\ phases[t] = <<"pod">>
        /\ entry[u] = "scrape_metrics" /\ pc[u] = "ready"

\* C8: no exception of a gathering phase leaves its function; after a pod
\* phase that raised, the node phase of the same cycle runs; after every
\* cycle run_scrape starts the next one.
C8_ExceptionsContained ==
    /\ [](\A t \in Threads : pc[t] # "escaped")
    /\ (pc[Driver] = "pod_exit" /\ caught[Driver]) ~> (pc[Driver] = "node_list")
    /\ (pc[Driver] = "scrape_exit") ~> (pc[Driver] = "pod_list")

C8_Witness ==
    \E t \in Threads :
        /\ entry[t] = "run_scrape"
        /\ pc[t] = "node_loop"
        /\ phases[t] = <<"pod raised">>
        /\ DOMAIN NODE_ACTUAL_COST # {}

\* C9 (as claimed): every published cost is non-negative.
C9_PublishedCostsNonNegative ==
    /\ \A l \in DOMAIN POD_USAGE_COST : POD_USAGE_COST[l] >= 0
    /\ \A l \in DOMAIN POD_WASTAGE_COST : POD_WASTAGE_COST[l] >= 0
    /\ \A l \in DOMAIN NODE_USAGE_COST : NODE_USAGE_COST[l] >= 0
    /\ \A l \in DOMAIN NODE_WASTAGE_COST : NODE_WASTAGE_COST[l] >= 0
    /\ \A l \in DOMAIN NODE_ACTUAL_COST : NODE_ACTUAL_COST[l] >= 0

\* C10: for a node with total CPU > 0 and a numeric price, usage cost plus
\* wastage cost differs from the hourly cost by at most 1e-8.
C10_NodeCostsAddUp ==
    \A t \in Threads : \A i \in 1 .. Len(out[t]) :
        (InNodePhase(t) /\ out[t][i].cpu_request.v > 0 /\ IsNum(out[t][i].price)) =>
            /\ out[t][i].status = "published"
            /\ Abs(out[t][i].usage_cost.v + out[t][i].wastage_cost.v
                   - out[t][i].hourly_cost.v) <= 1

\* total 4000m, usage 1000m, price 0.04: hourly 0.16, usage 0.04, wastage 0.12
C10_Witness ==
    \E t \in Threads : \E i \in 1 .. Len(out[t]) :
        /\ InNodePhase(t)
        /\ out[t][i].cpu_request = Num(4000 * 1000)
        /\ out[t][i].cpu_usage = Num(1000 * 1000)
        /\ out[t][i].price = Num(400)
        /\ out[t][i].hourly_cost = Num(16000000)
        /\ out[t][i].usage_cost = Num(4000000)
        /\ out[t][i].wastage_cost = Num(12000000)

\* C11 (as claimed): a pod whose CPU request is 0, and whose price lookup
\* returned a number, is published with wastage cost exactly 0, whatever
\* pods the pass processed before it.
C11_ZeroRequestWastageZero ==
    \A t \in Threads : \A i \in 1 .. Len(out[t]) :
        (InPodPhase(t) /\ out[t][i].cpu_request = Num(0)
            /\ IsNum(out[t][i].price)) =>
            /\ out[t][i].status = "published"
            /\ out[t][i].wastage_cost = Num(0)

\* C12 (as claimed): a pod whose metrics entry holds a CPU quantity that
\* cannot be parsed is still published, and at the end of the pass every
\* later pod was processed.
C12_MalformedQuantityTreatedAsZero ==
    \A t \in Threads : \A i \in 1 .. Len(out[t]) :
        (InPodPhase(t) /\ out[t][i].cpu_usage = Raise) =>
            /\ out[t][i].status = "published"
            /\ pc[t] = "pod_exit" => LaterProcessed(t, i)

\* The request has no data or lacks one of the three parameters.
ParametersMissing ==
    \/ server.data.kind # "object"
    \/ server.data.empty
    \/ Falsy(server.data.region)
    \/ Falsy(server.data.instance_type)
    \/ Falsy(server.data.operating_system)

\* The lookup failed for one of the reasons the claim lists.
LookupFailed ==
    /\ ~ParametersMissing
    /\ \/ server.data.region.s \notin REGION_MAPPING
       \/ server.aws.kind \in {"ClientError", "BotoCoreError"}
       \/ server.aws.kind = "products"
            /\ (server.aws.n = 0 \/ server.aws.vcpu = "absent")

\* C13 (as claimed): a request with no data or with a parameter missing is
\* answered 400 with an error message; a failed lookup is answered 500 with
\* an error message; a body with cost_per_vcpu_per_hour is sent only with
\* the price get_pricing_data resolved; get_pricing_data never raises to the
\* handler.
C13_ServerErrorsSurfaceAsJson ==
    /\ (server.pc = "idle" /\ server.reply # NoReply) =>
          /\ ParametersMissing =>
                /\ server.reply.status = 400
                /\ server.reply.error # ""
                /\ ~server.reply.pricing
          /\ LookupFailed =>
                /\ server.reply.status = 500
                /\ server.reply.error # ""
                /\ ~server.reply.pricing
          /\ server.reply.pricing =>
                /\ server.reply.status = 200
                /\ server.result.kind = "return"
                /\ IsNum(server.result.price)
                /\ server.reply.cost_per_vcpu_per_hour = server.result.per_cpu_cost
    /\ server.pc = "respond" => server.result.kind # "raise"

\* The pod that thread t's pass processed last is the pod of scenario A:
\* CPU request "1000m", CPU usage "250m", price 0.05 per vCPU-hour.
ScenarioA(t) ==
    /\ pc[t] = "pod_loop"
    /\ Len(out[t]) > 0
    /\ out[t][Len(out[t])].cpu_request = Num(1000 * 1000)
    /\ out[t][Len(out[t])].cpu_usage = Num(250 * 1000)
    /\ out[t][Len(out[t])].price = Num(500)

\* C14 (amended): the pod of scenario A is published with usage cost
\* 0.0125, unused CPU 750 millicores and wastage cost 0.0375.
C14_ScenarioA ==
    \A t \in Threads :
        ScenarioA(t) =>
            /\ out[t][Len(out[t])].status = "published"
            /\ out[t][Len(out[t])].usage_cost = Num(1250000)
            /\ loc[t].unused_cpu = Num(750 * 1000)
            /\ out[t][Len(out[t])].wastage_cost = Num(3750000)

C14_Witness ==
    \E t \in Threads :
        /\ ScenarioA(t)
        /\ out[t][Len(out[t])].name = "web-1"
        /\ POD_USAGE_COST[PodLabels(Pod1)] = 1250000
        /\ POD_WASTAGE_COST[PodLabels(Pod1)] = 3750000

\* C14 (as claimed): the pod of scenario A is published with usage cost
\* 0.00125, unused CPU 750 millicores and wastage cost 0.0375.
C14_ScenarioAAsClaimed ==
    \A t \in Threads :
        ScenarioA(t) =>
            /\ out[t][Len(out[t])].status = "published"
            /\ out[t][Len(out[t])].usage_cost = Num(125000)
            /\ loc[t].unused_cpu = Num(750 * 1000)
            /\ out[t][Len(out[t])].wastage_cost = Num(3750000)

\* The converter f was called with the string q and has returned r.
Converted(f, q, r) ==
    (unit.f = f /\ unit.arg = q /\ unit.result # Unbound) => unit.result = r

\* The examples that are as the code computes them: "500m" is 500
\* millicores, "2" is 2000 millicores, "1Gi" is 1024 megabytes, "512Mi" is
\* 512 megabytes, "2Ki" is 2/1024 megabyte (200 units of 1/102400).
ConverterExamples ==
    /\ Converted("convert_to_millicores", Qty(500, "m"), Num(500 * 1000))
    /\ Converted("convert_to_millicores", Qty(2, ""), Num(2000 * 1000))
    /\ Converted("convert_to_megabytes", Qty(1, "Gi"), Num(1024 * 102400))
    /\ Converted("convert_to_megabytes", Qty(512, "Mi"), Num(512 * 102400))
    /\ Converted("convert_to_megabytes", Qty(2, "Ki"), Num(200))

\* C15 (amended): the examples above, and convert_to_millicores of
\* "500000000n" is 500 millicores.
C15_ConverterExamples ==
    /\ ConverterExamples
    /\ Converted("convert_to_millicores", Qty(500000000, "n"), Num(500 * 1000))

C15_Witness ==
    /\ unit.f = "convert_to_millicores"
    /\ unit.arg = Qty(500000000, "n")
    /\ unit.result = Num(500 * 1000)

\* C15 (as claimed): the examples above, and convert_to_millicores of
\* "500000000n" is 0.5 millicores.
C15_ConverterExamplesAsClaimed ==
    /\ ConverterExamples
    /\ Converted("convert_to_millicores", Qty(500000000, "n"), Num(500))

\* Thread t is inside the body that `with semaphore` guards.
InFlight(t) == InPodPhase(t) \/ InNodePhase(t)

\* C16: at most 3 gathering phases are inside the semaphore-guarded body.
C16_AtMostThreeInFlight ==
    Cardinality({t \in Threads : InFlight(t)}) <= 3

C16_Witness ==
    /\ Cardinality({t \in Threads : InFlight(t)}) = 3
    /\ semaphore = 0
    /\ \E t \in Threads : pc[t] \in {"pod_sem", "node_sem"}

C18_OneSeriesPerNode ==
    /\ \A k, l \in DOMAIN NODE_USAGE_COST :
          (k[1] = l[1] /\ k[2] = l[2] /\ k[3] = l[3]) => k = l
    /\ \A k, l \in DOMAIN NODE_WASTAGE_COST :
          (k[1] = l[1] /\ k[2] = l[2] /\ k[3] = l[3]) => k = l

\* The series of gauge g that a step to h removed, and those it wrote:
\* created, or given another value.
Removed(g, h) == DOMAIN g \ DOMAIN h
Written(g, h) == {l \in DOMAIN h : l \notin DOMAIN g \/ h[l] # g[l]}

\* The pods and nodes that the running passes are at in their listings,
\* pods of an ignored namespace left out.
CurrentPods ==
    {items[t][idx[t]] : t \in {u \in Threads :
        /\ InPodPhase(u)
        /\ idx[u] \in 1 .. Len(items[u])
        /\ items[u][idx[u]].namespace \notin ignore_namespaces}}
CurrentNodes ==
    {items[t][idx[t]] : t \in {u \in Threads :
        InNodePhase(u) /\ idx[u] \in 1 .. Len(items[u])}}

\* C19: no step removes a series; a step writes a pod series only under the
\* labels of a pod of the current listing that the pass is at and that is
\* not in an ignored namespace, and a node series only under the labels of
\* a node of the current listing that the pass is at.  Every other series,
\* those of pods and nodes that have disappeared included, keeps its value.
C19_OnlyListedItemsWritten ==
    [][/\ Removed(POD_USAGE_COST, POD_USAGE_COST') = {}
       /\ Removed(POD_WASTAGE_COST, POD_WASTAGE_COST') = {}
       /\ Removed(NODE_USAGE_COST, NODE_USAGE_COST') = {}
       /\ Removed(NODE_WASTAGE_COST, NODE_WASTAGE_COST') = {}
       /\ Removed(NODE_ACTUAL_COST, NODE_ACTUAL_COST') = {}
       /\ \A l \in Written(POD_USAGE_COST, POD_USAGE_COST')
                     \cup Written(POD_WASTAGE_COST, POD_WASTAGE_COST') :
             \E pod \in CurrentPods : l = PodLabels(pod)
       /\ \A l \in Written(NODE_USAGE_COST, NODE_USAGE_COST')
                     \cup Written(NODE_WASTAGE_COST, NODE_WASTAGE_COST') :
             \E node \in CurrentNodes : SubSeq(l, 1, 3) = NodeLabels(node)
       /\ \A l \in Written(NODE_ACTUAL_COST, NODE_ACTUAL_COST') :
             \E node \in CurrentNodes : l = NodeLabels(node)
      ]_vars

\* web-1 is not in the listing of the running cycle, which has published
\* job-1; web-1's series still hold the values of an earlier cycle.
C19_Witness ==
    /\ InPodPhase(Driver)
    /\ items[Driver] = <<Pod2>>
    /\ Len(out[Driver]) = 1
    /\ out[Driver][1].status = "published"
    /\ PodLabels(Pod2) \in DOMAIN POD_USAGE_COST
    /\ PodLabels(Pod1) \in DOMAIN POD_USAGE_COST
    /\ POD_USAGE_COST[PodLabels(Pod1)] = 1250000
    /\ POD_WASTAGE_COST[PodLabels(Pod1)] = 3750000

\* C20 (as claimed): the costs published for the pod a pass has just
\* processed are the ones computed from that pod's own CPU usage, CPU
\* request and price, for every numeric price, 0 included.
C20_CostsFromCurrentPod ==
    \A t \in Threads :
        (pc[t] = "pod_loop" /\ InPodPhase(t) /\ Len(out[t]) > 0
            /\ out[t][Len(out[t])].status = "published") =>
            LET r == out[t][Len(out[t])]
                l == loc[t]
            IN  /\ r.usage_cost = Num(CpuCost(l.cpu_usage.v, r.price.v))
                /\ r.wastage_cost =
                      IF l.cpu_request.v > 0
                      THEN Num(CpuCost(l.unused_cpu.v, r.price.v))
                      ELSE Num(0)

\* The threads that hold what thread t is about to acquire: the holder of
\* cache_lock, the holders of the semaphore's permits, or the holder of
\* metrics_lock.
Holders(t) ==
    IF pc[t] \in {"cost_lock", "cost_lock2"} THEN cache_lock
    ELSE IF pc[t] \in {"pod_sem", "node_sem"} THEN {h \in Threads : InFlight(h)}
    ELSE IF pc[t] = "ready" /\ entry[t] \in {"scrape_metrics", "run_scrape"}
         THEN metrics_lock
    ELSE {}
\* Thread t can take a step, or waits for something whose holder can
\* proceed, over at most n holders in a row.
RECURSIVE CanProceed(_, _)
CanProceed(t, n) ==
    \/ ENABLED LocksStep(t)
    \/ n > 0 /\ \E h \in Holders(t) \ {t} : CanProceed(h, n - 1)
Finished(t) == entry[t] = "none" \/ pc[t] = "done"
NoCallerActive == \A t \in Threads : pc[t] \in {"ready", "done"}

\* C21: cache_lock is held only inside the two with blocks of the lookup,
\* a scraping thread takes a permit only while it holds metrics_lock, every
\* permit that is not in the semaphore is held by a running pass, each thread
\* that has not finished can step or waits on a chain of at most three
\* holders that ends in a thread that can step (no deadlock), and when no
\* caller is active the semaphore has 3 permits and both locks are free.
C21_LocksOrderedAndReleased ==
    /\ \A t \in cache_lock : pc[t] \in {"cost_check", "cost_store"}
    /\ \A t \in metrics_lock :
          entry[t] \in {"scrape_metrics", "run_scrape"} /\ pc[t] \notin {"ready", "done"}
    /\ \A t \in Threads :
          InFlight(t) /\ entry[t] \in {"scrape_metrics", "run_scrape"}
              => t \in metrics_lock
    /\ Cardinality(cache_lock) <= 1 /\ Cardinality(metrics_lock) <= 1
    /\ semaphore + Cardinality({t \in Threads : InFlight(t)}) = SemaphoreCapacity
    /\ \A t \in Threads : ~Finished(t) => CanProceed(t, 3)
    /\ NoCallerActive => semaphore = 3 /\ cache_lock = {} /\ metrics_lock = {}
\* All three are contended at once: a pass waits for a permit, a pass that
\* holds a permit and metrics_lock waits for cache_lock, which another
\* pass holds.
C21_Witness ==
    /\ semaphore = 0
    /\ \E t \in Threads : pc[t] \in {"pod_sem", "node_sem"}
    /\ \E t \in metrics_lock, h \in cache_lock :
          /\ t # h
          /\ InFlight(t) /\ InFlight(h)
          /\ pc[t] \in {"cost_lock", "cost_lock2"}

====
